---- MODULE Spec2Model ----
(***************************************************************************)
(* The post-quantum special purpose register file of the OTBN simulator    *)
(* (dv/otbnsim/sim/pqspr.py): two-phase registers (_uval / _next_uval),    *)
(* word-addressable wide registers, counters, the Montgomery update rules  *)
(* of twiddle and omega, and the file's pending set with commit, abort     *)
(* and wipe.                                                               *)
(*                                                                         *)
(* Representation.  A Python Optional[int] is a sequence: None is <<>>, a  *)
(* 32-bit register's integer v is <<v>> (v is an unbounded integer, as in  *)
(* Python) and a wide register's integer is its eight base-2^WordBits      *)
(* digits, least significant first.  The word width 32 of the source is    *)
(* WordBits here; the byte constants 0xFF and 0x7F of the address          *)
(* registers are kept, so WordBits is at least 8.                          *)
(***************************************************************************)
EXTENDS Integers, Sequences, FiniteSets, TLC

VARIABLES uval, next_uval, pending_writes, last, wiped, lane_log, other_ops, steps

vars == <<uval, next_uval, pending_writes, last, wiped, lane_log, other_ops, steps>>

-----------------------------------------------------------------------------
(* Bounds of the model *)

WordBits == 8
MaxOps == 2
MontSmall == 15

(* Program constants *)

NumWords == 8
ByteMask == 255
M_ShiftMask == 127
IDX_0_ID == 12

Q == 0
Q_DASH == 1
TWIDDLE == 2
OMEGA == 3
PSI == 4
IDX_OMEGA == 5
IDX_PSI == 6
CONST == 7
RC == 8
IDX_RC == 9
M == 10
J == 11
IDX_0 == 12
IDX_1 == 13
MODE == 14
X == 15
Y == 16

RECURSIVE Pow2(_)
Pow2(n) == IF n = 0 THEN 1 ELSE 2 * Pow2(n - 1)

WordBase == Pow2(WordBits)
WordMask == WordBase - 1

by_idx == 0 .. 16
WideRegs == {OMEGA, PSI, RC}
IncRegs == {IDX_OMEGA, IDX_PSI, IDX_RC, J, IDX_0, IDX_1, X, Y}
IncIdxRegs == {IDX_0, IDX_1}
Words == 0 .. (NumWords - 1)

-----------------------------------------------------------------------------
(* Optional[int] and integer helpers *)

None == <<>>
Some(v) == <<v>>
Wide0 == [k \in 1 .. NumWords |-> 0]
WideOfWord(t) == [k \in 1 .. NumWords |-> IF k = 1 THEN t ELSE 0]

(* a & b and a | b on the low n bits of non-negative a and b *)
RECURSIVE BitAnd(_, _, _)
BitAnd(a, b, n) ==
    IF n = 0 \/ a = 0 \/ b = 0 THEN 0
    ELSE (IF a % 2 = 1 /\ b % 2 = 1 THEN 1 ELSE 0) + 2 * BitAnd(a \div 2, b \div 2, n - 1)

RECURSIVE BitOr(_, _, _)
BitOr(a, b, n) ==
    IF n = 0 THEN 0
    ELSE IF b = 0 THEN a % Pow2(n)
    ELSE IF a = 0 THEN b % Pow2(n)
    ELSE (IF a % 2 = 1 \/ b % 2 = 1 THEN 1 ELSE 0) + 2 * BitOr(a \div 2, b \div 2, n - 1)

RECURSIVE Rev(_, _)
Rev(v, n) == IF n = 0 THEN 0 ELSE (v % 2) * Pow2(n - 1) + Rev(v \div 2, n - 1)

-----------------------------------------------------------------------------
(* Reg (sim/reg.py): the two-phase cell, after its contract in the          *)
(* specification (section 3, section 6)                                   *)

St == [u |-> uval, n |-> next_uval, p |-> pending_writes, err |-> FALSE]

Raise(s) == [s EXCEPT !.err = TRUE]

mark_written(s, idx) == [s EXCEPT !.p = @ \cup {idx}]

read_unsigned(s, idx) == s.u[idx]

read_next(s, idx) == s.n[idx]

write_unsigned(s, idx, v) == mark_written([s EXCEPT !.n[idx] = v], idx)

write_invalid(s, idx) == mark_written([s EXCEPT !.n[idx] = None], idx)

reg_commit(s, idx) == [s EXCEPT !.u[idx] = s.n[idx], !.n[idx] = None]

reg_abort(s, idx) == [s EXCEPT !.n[idx] = None]

-----------------------------------------------------------------------------
(* PQSPRegWide *)

WordIdxOk(i) == i # None /\ 0 <= i[1] /\ i[1] < NumWords

read_word_unsigned(w, i) == w[i + 1]

set_word_value(base, i, value) ==
    [k \in 1 .. NumWords |->
        BitOr(BitAnd(base[k], WordMask - (IF k = i + 1 THEN WordMask ELSE 0), WordBits),
              IF k = i + 1 THEN value ELSE 0, WordBits)]

(* Faulty variant: every word write merges into the current value. *)
set_word_from_current(s, r, i, value) ==
    IF ~(0 <= i /\ i < NumWords) \/ ~(0 <= value /\ value < WordBase) THEN Raise(s)
    ELSE IF s.u[r] = None THEN Raise(s)
    ELSE mark_written([s EXCEPT !.n[r] = set_word_value(s.u[r], i, value)], r)

(* Faulty variant: the value of a word write is not checked. *)
set_word_any_value(s, r, i, value) ==
    IF ~(0 <= i /\ i < NumWords) THEN Raise(s)
    ELSE LET base == IF s.n[r] = None THEN s.u[r] ELSE s.n[r] IN
         IF base = None THEN Raise(s)
         ELSE mark_written([s EXCEPT !.n[r] = set_word_value(base, i, value)], r)

set_word(s, r, i, value) ==
    IF ~(0 <= i /\ i < NumWords) \/ ~(0 <= value /\ value < WordBase) THEN Raise(s)
    ELSE LET base == IF s.n[r] = None THEN s.u[r] ELSE s.n[r] IN
         IF base = None THEN Raise(s)
         ELSE mark_written([s EXCEPT !.n[r] = set_word_value(base, i, value)], r)

(* A call of read_word_unsigned(i) on register r: the assertion, then the  *)
(* shift of the current value, which raises TypeError on None.             *)
read_word_unsigned_call(s, r, i) ==
    IF ~(0 <= i /\ i < NumWords) THEN [err |-> TRUE, ret |-> <<>>]
    ELSE IF s.u[r] = None THEN [err |-> TRUE, ret |-> <<>>]
    ELSE [err |-> FALSE, ret |-> <<read_word_unsigned(s.u[r], i)>>]

-----------------------------------------------------------------------------
(* PQSPRegInc *)

(* Faulty variant: the counter wraps instead of failing. *)
inc_wraps(s, r) ==
    IF s.u[r] = None THEN Raise(s)
    ELSE mark_written([s EXCEPT !.n[r] = Some((s.u[r][1] + 1) % WordBase)], r)

(* Faulty variant: inc() counts on from the pending value. *)
inc_from_pending(s, r) ==
    LET base == IF s.n[r] = None THEN s.u[r] ELSE s.n[r] IN
    IF base = None THEN Raise(s)
    ELSE IF ~(base[1] < WordBase - 1) THEN Raise(s)
    ELSE mark_written([s EXCEPT !.n[r] = Some(base[1] + 1)], r)

inc(s, r) ==
    IF s.u[r] = None THEN Raise(s)
    ELSE IF ~(s.u[r][1] < WordBase - 1) THEN Raise(s)
    ELSE mark_written([s EXCEPT !.n[r] = Some(s.u[r][1] + 1)], r)

-----------------------------------------------------------------------------
(* The Montgomery step shared by twiddle.update and omega.update.  p_lo is *)
(* p modulo 2^(2*WordBits): (p & mask) and ((s >> w) & mask) read no       *)
(* higher bit of p.                                                        *)

(* Faulty variant: the conditional final subtraction is missing. *)
mont_reduce_no_subtract(p_lo, q, q_inv) ==
    LET m == (p_lo % WordBase) * q_inv
        s == p_lo + (m % WordBase) * q
    IN  (s \div WordBase) % WordBase

mont_reduce(p_lo, q, q_inv) ==
    LET m == (p_lo % WordBase) * q_inv
        s == p_lo + (m % WordBase) * q
        t == (s \div WordBase) % WordBase
    IN  IF t >= q THEN t - q ELSE t

-----------------------------------------------------------------------------
(* PQSPRegTwiddle *)

twiddle_set_as_psi(s) ==
    LET i == read_unsigned(s, IDX_PSI) IN
    IF ~WordIdxOk(i) \/ s.u[PSI] = None THEN Raise(s)
    ELSE mark_written([s EXCEPT !.n[TWIDDLE] = Some(read_word_unsigned(s.u[PSI], i[1]))],
                      TWIDDLE)

(* Faulty variant: q is read through its pending value. *)
twiddle_inv_reads_pending(s) ==
    LET q == IF s.n[Q] # None THEN s.n[Q] ELSE s.u[Q] IN
    IF q = None \/ s.u[TWIDDLE] = None THEN Raise(s)
    ELSE mark_written([s EXCEPT !.n[TWIDDLE] = Some(q[1] - s.u[TWIDDLE][1])], TWIDDLE)

twiddle_inv(s) ==
    LET q == read_unsigned(s, Q) IN
    IF q = None \/ s.u[TWIDDLE] = None THEN Raise(s)
    ELSE mark_written([s EXCEPT !.n[TWIDDLE] = Some(q[1] - s.u[TWIDDLE][1])], TWIDDLE)

(* Faulty variant: the omega index is read through its pending value. *)
twiddle_update_reads_pending(s) ==
    LET i == IF s.n[IDX_OMEGA] # None THEN s.n[IDX_OMEGA] ELSE s.u[IDX_OMEGA]
        q == read_unsigned(s, Q)
        q_inv == read_unsigned(s, Q_DASH)
    IN  IF ~WordIdxOk(i) \/ s.u[OMEGA] = None THEN Raise(s)
        ELSE IF q = None \/ q_inv = None \/ s.u[TWIDDLE] = None THEN Raise(s)
        ELSE LET omega == read_word_unsigned(s.u[OMEGA], i[1])
                 p == s.u[TWIDDLE][1] * omega
             IN  mark_written(
                     [s EXCEPT !.n[TWIDDLE] =
                         Some(mont_reduce(p % (WordBase * WordBase), q[1], q_inv[1]))],
                     TWIDDLE)

twiddle_update(s) ==
    LET i == read_unsigned(s, IDX_OMEGA)
        q == read_unsigned(s, Q)
        q_inv == read_unsigned(s, Q_DASH)
    IN  IF ~WordIdxOk(i) \/ s.u[OMEGA] = None THEN Raise(s)
        ELSE IF q = None \/ q_inv = None \/ s.u[TWIDDLE] = None THEN Raise(s)
        ELSE LET omega == read_word_unsigned(s.u[OMEGA], i[1])
                 p == s.u[TWIDDLE][1] * omega
             IN  mark_written(
                     [s EXCEPT !.n[TWIDDLE] =
                         Some(mont_reduce(p % (WordBase * WordBase), q[1], q_inv[1]))],
                     TWIDDLE)

-----------------------------------------------------------------------------
(* PQSPRegOmega: the whole 256-bit value is squared.  The low two words of *)
(* the square are d0*d0 + 2*d0*d1*2^w modulo 2^(2w).                       *)

omega_update(s) ==
    LET q == read_unsigned(s, Q)
        q_inv == read_unsigned(s, Q_DASH)
    IN  IF s.u[OMEGA] = None \/ q = None \/ q_inv = None THEN Raise(s)
        ELSE LET d0 == s.u[OMEGA][1]
                 d1 == s.u[OMEGA][2]
                 p_lo == (d0 * d0 + WordBase * ((2 * d0 * d1) % WordBase))
                            % (WordBase * WordBase)
             IN  mark_written(
                     [s EXCEPT !.n[OMEGA] = WideOfWord(mont_reduce(p_lo, q[1], q_inv[1]))],
                     OMEGA)

-----------------------------------------------------------------------------
(* PQSPRegPsi *)

RECURSIVE psi_write_words(_, _, _)
psi_write_words(s, omega, byte) ==
    IF byte = NumWords \/ s.err THEN s
    ELSE psi_write_words(set_word(s, PSI, byte, omega), omega, byte + 1)

(* Faulty variant: the broadcast word is always word 0 of omega. *)
psi_update_from_word0(s) ==
    LET i == read_unsigned(s, IDX_PSI) IN
    IF ~WordIdxOk(i) \/ s.u[OMEGA] = None THEN Raise(s)
    ELSE LET w == psi_write_words(s, read_word_unsigned(s.u[OMEGA], 0), 0) IN
         IF w.err THEN w ELSE mark_written(w, PSI)

psi_update(s) ==
    LET i == read_unsigned(s, IDX_PSI) IN
    IF ~WordIdxOk(i) \/ s.u[OMEGA] = None THEN Raise(s)
    ELSE LET w == psi_write_words(s, read_word_unsigned(s.u[OMEGA], i[1]), 0) IN
         IF w.err THEN w ELSE mark_written(w, PSI)

-----------------------------------------------------------------------------
(* PQSPRegM *)

(* Faulty variant: the doubled value is not masked to seven bits first. *)
m_update_unmasked(s) ==
    LET m == read_unsigned(s, M)
        mode == read_unsigned(s, MODE)
    IN  IF m = None THEN Raise(s)
        ELSE mark_written(
                 [s EXCEPT !.n[M] =
                     IF mode # None /\ mode[1] # 0
                     THEN Some(2 * m[1])
                     ELSE Some(BitAnd(m[1], ByteMask, WordBits) \div 2)],
                 M)

m_update(s) ==
    LET m == read_unsigned(s, M)
        mode == read_unsigned(s, MODE)
    IN  IF m = None THEN Raise(s)
        ELSE mark_written(
                 [s EXCEPT !.n[M] =
                     IF mode # None /\ mode[1] # 0
                     THEN Some(2 * BitAnd(m[1], M_ShiftMask, WordBits))
                     ELSE Some(BitAnd(m[1], ByteMask, WordBits) \div 2)],
                 M)

-----------------------------------------------------------------------------
(* PQSPRegIncIdx *)

(* Faulty variant: both address registers add the stride m. *)
idx_set_adds_stride(s, r) ==
    LET j == read_unsigned(s, J)
        m == read_unsigned(s, M)
    IN  IF j = None \/ m = None THEN Raise(s)
        ELSE LET value == BitAnd(j[1], ByteMask, WordBits)
                 bit_reverse == Rev(value, 8)
                 add == BitAnd(bit_reverse + m[1], ByteMask, WordBits + 1)
             IN  mark_written([s EXCEPT !.n[r] = Some(add)], r)

idx_set(s, r) ==
    LET j == read_unsigned(s, J)
        m == read_unsigned(s, M)
    IN  IF j = None \/ m = None THEN Raise(s)
        ELSE LET value == BitAnd(j[1], ByteMask, WordBits)
                 bit_reverse == Rev(value, 8)
                 add == BitAnd(bit_reverse + m[1], ByteMask, WordBits + 1)
             IN  mark_written(
                     [s EXCEPT !.n[r] = Some(IF r = IDX_0_ID THEN bit_reverse ELSE add)], r)

-----------------------------------------------------------------------------
(* PQSPRFile *)

RECURSIVE for_pending(_, _, _)
for_pending(s, todo, commit) ==
    IF todo = {} THEN s
    ELSE LET idx == CHOOSE i \in todo : \A k \in todo : i <= k IN
         for_pending(IF commit THEN reg_commit(s, idx) ELSE reg_abort(s, idx),
                     todo \ {idx}, commit)

(* Faulty variants of commit and abort. *)
file_commit_keeps_pending(s) == for_pending(s, s.p, TRUE)

file_abort_keeps_pending(s) == for_pending(s, s.p, FALSE)

file_abort_applies(s) == [for_pending(s, s.p, TRUE) EXCEPT !.p = {}]

file_commit(s) == [for_pending(s, s.p, TRUE) EXCEPT !.p = {}]

file_abort(s) == [for_pending(s, s.p, FALSE) EXCEPT !.p = {}]

(* commit() and abort() on a pending set that holds an index outside the   *)
(* file: commit() raises KeyError at self._by_idx[idx], abort()            *)
(* AssertionError at its assert, when the loop reaches that index.  The    *)
(* registers in done are the ones the loop has resolved by then; the       *)
(* iteration order of a Python set is not specified, so done is any set of *)
(* the pending registers.  _pending_writes.clear() is not reached.         *)
Stops(s) == IF s.p \subseteq by_idx THEN {s.p} ELSE SUBSET (s.p \cap by_idx)

commit_run(s, done) ==
    IF s.p \subseteq by_idx THEN file_commit(s) ELSE Raise(for_pending(s, done, TRUE))

abort_run(s, done) ==
    IF s.p \subseteq by_idx THEN file_abort(s) ELSE Raise(for_pending(s, done, FALSE))

RECURSIVE wipe_from(_, _)
wipe_from(s, idx) ==
    IF idx > 16 THEN s ELSE wipe_from(write_invalid(s, idx), idx + 1)

(* Faulty variant: wipe() invalidates the current values at once. *)
file_wipe_at_once(s) == [wipe_from(s, 0) EXCEPT !.u = [i \in by_idx |-> None]]

file_wipe(s) == wipe_from(s, 0)

(* The attributes PQSPRFile.__init__ sets on the file.  A read of any     *)
(* other attribute of the file raises AttributeError.                      *)
FileAttrs ==
    { "_pending_writes", "q", "q_dash", "twiddle", "omega", "psi", "idx_omega",
      "idx_psi", "const", "rc", "idx_rc", "m", "j", "idx_0", "idx_1", "mode", "x",
      "y", "_by_idx" }

(* The attribute a of the file, named by its string where it is no         *)
(* register.                                                               *)
FileAttr(a) == <<a>>

TracePQSPR(name, width, new_value) ==
    [name |-> name, width |-> width, new_value |-> new_value]

Returned(ret) == [err |-> FALSE, ret |-> ret]

Raised == [err |-> TRUE, ret |-> <<>>]

get_reg_ok(idx) == 0 <= idx /\ idx < Cardinality(by_idx)

(* changes(): the loop body formats self._name_pfx and passes self._width, *)
(* attributes of the file.                                                 *)
RECURSIVE changes_from(_, _, _)
changes_from(s, todo, ret) ==
    IF todo = {} THEN Returned(ret)
    ELSE LET idx == CHOOSE i \in todo : \A k \in todo : i <= k IN
         IF ~get_reg_ok(idx) THEN Raised
         ELSE IF ~({"_name_pfx", "_width"} \subseteq FileAttrs) THEN Raised
         ELSE changes_from(s, todo \ {idx},
                  Append(ret, TracePQSPR(<<FileAttr("_name_pfx"), idx>>,
                                         FileAttr("_width"), read_next(s, idx))))

changes(s) == changes_from(s, s.p, <<>>)

(* Iterating the dict _by_idx yields its keys, the integers 0..16, in      *)
(* insertion order; its values are the register objects (class Reg).       *)
PyInt(k) == [cls |-> "int", idx |-> k]

IterByIdx == [n \in 1 .. Cardinality(by_idx) |-> PyInt(n - 1)]

(* peek_unsigned_values(): reg.read_unsigned(backdoor=True) for each reg   *)
(* the iteration yields; an int has no read_unsigned.                      *)
RECURSIVE peek_from(_, _, _, _)
peek_from(s, regs, n, ret) ==
    IF n > Len(regs) THEN Returned(ret)
    ELSE IF regs[n].cls # "Reg" THEN Raised
    ELSE peek_from(s, regs, n + 1, Append(ret, read_unsigned(s, regs[n].idx)))

peek_unsigned_values(s) == peek_from(s, IterByIdx, 1, <<>>)

-----------------------------------------------------------------------------
(* Inputs of the operations *)

QDashOf(q) == CHOOSE x \in 0 .. WordMask : (q * x) % WordBase = WordMask

WideA == <<7, 3, 0, 0, 0, 0, 0, 11>>
WideB == <<2, 4, 6, 8, 10, 12, 1, 5>>

WriteMenu ==
    { <<Q, Some(7)>>, <<TWIDDLE, Some(3)>>, <<IDX_PSI, Some(1)>>, <<OMEGA, WideB>> }

WordWriteMenu ==
    { <<OMEGA, 0, 1>>, <<OMEGA, 0, WordMask>>, <<OMEGA, 7, 1>>, <<PSI, 1, WordMask>>,
      <<RC, 0, 1>> }

IncMenu == {IDX_OMEGA, J, IDX_0, X}

(* Plain writes to counters that IncMenu increments. *)
CounterWriteMenu == { <<J, Some(9)>>, <<IDX_OMEGA, Some(3)>> }

(* Indices on both sides of the file's range 0..16. *)
MarkMenu == {-1, Cardinality(by_idx)}

(* Word indices and word values on both sides of their ranges. *)
ReadIdxMenu == {-1, 0, NumWords - 1, NumWords}

OutOfRangeWordWrites ==
    { <<OMEGA, -1, 1>>, <<OMEGA, NumWords, 1>>, <<OMEGA, 0, -1>>, <<OMEGA, 0, WordBase>>,
      <<PSI, NumWords, WordBase>> }

-----------------------------------------------------------------------------
(* States of the file at the start of a cycle: the constructor's, and      *)
(* states that write_unsigned, wipe and commit lead to from it.            *)

Constructed == [i \in by_idx |-> IF i \in WideRegs THEN Wide0 ELSE Some(0)]

SeedNtt ==
    [Constructed EXCEPT ![Q] = Some(13), ![Q_DASH] = Some(QDashOf(13)),
                        ![TWIDDLE] = Some(5), ![OMEGA] = WideA, ![PSI] = WideB,
                        ![IDX_OMEGA] = Some(1), ![IDX_PSI] = Some(7),
                        ![M] = Some(17), ![J] = Some(51), ![MODE] = Some(1),
                        ![X] = Some(WordMask)]

SeedZeroTwiddle == [SeedNtt EXCEPT ![TWIDDLE] = Some(0)]

Wiped == [i \in by_idx |-> None]

SeedAfterWipe ==
    [Wiped EXCEPT ![OMEGA] = WideOfWord(52), ![Q] = Some(13),
                  ![Q_DASH] = Some(QDashOf(13)), ![TWIDDLE] = Some(2)]

Seeds == {Constructed, SeedNtt, SeedZeroTwiddle, SeedAfterWipe}

NoLog == [r \in WideRegs |-> [i \in Words |-> <<>>]]

-----------------------------------------------------------------------------
(* The state machine *)

InitFrom(u) ==
    /\ uval = u
    /\ next_uval = [i \in by_idx |-> None]
    /\ pending_writes = {}
    /\ last = [op |-> "init", reg |-> -1, err |-> FALSE, log |-> NoLog, regs |-> {}]
    /\ wiped = FALSE
    /\ lane_log = NoLog
    /\ other_ops = {}
    /\ steps = 0

Init == \E u \in Seeds : InitFrom(u)

Effect(r, op, reg) ==
    /\ uval' = r.u
    /\ next_uval' = r.n
    /\ pending_writes' = r.p
    /\ last' = [op |-> op, reg |-> reg, err |-> r.err,
                log |-> IF op = "commit" THEN lane_log ELSE NoLog,
                regs |-> IF op = "commit" THEN other_ops ELSE {}]

Step(r, op, reg) ==
    /\ steps < MaxOps
    /\ steps' = steps + 1
    /\ Effect(r, op, reg)

Touch(r, reg) ==
    /\ other_ops' = IF r.err THEN other_ops ELSE other_ops \cup {reg}
    /\ UNCHANGED <<wiped, lane_log>>

WriteUnsigned ==
    \E w \in WriteMenu :
        LET r == write_unsigned(St, w[1], w[2]) IN
        Step(r, "write_unsigned", w[1]) /\ Touch(r, w[1])

WriteWordUnsigned ==
    \E w \in WordWriteMenu :
        LET r == set_word(St, w[1], w[2], w[3]) IN
        /\ Step(r, "write_word_unsigned", w[1])
        /\ lane_log' = IF r.err THEN lane_log
                       ELSE [lane_log EXCEPT ![w[1]][w[2]] = Append(@, w[3])]
        /\ UNCHANGED <<wiped, other_ops>>

Inc ==
    \E reg \in IncMenu :
        LET r == inc(St, reg) IN Step(r, "inc", reg) /\ Touch(r, reg)

TwiddleSetAsPsi ==
    LET r == twiddle_set_as_psi(St) IN Step(r, "twiddle.set_as_psi", TWIDDLE) /\ Touch(r, TWIDDLE)

TwiddleInv ==
    LET r == twiddle_inv(St) IN Step(r, "twiddle.inv", TWIDDLE) /\ Touch(r, TWIDDLE)

TwiddleUpdate ==
    LET r == twiddle_update(St) IN Step(r, "twiddle.update", TWIDDLE) /\ Touch(r, TWIDDLE)

OmegaUpdate ==
    LET r == omega_update(St) IN Step(r, "omega.update", OMEGA) /\ Touch(r, OMEGA)

PsiUpdate ==
    LET r == psi_update(St) IN Step(r, "psi.update", PSI) /\ Touch(r, PSI)

MUpdate ==
    LET r == m_update(St) IN Step(r, "m.update", M) /\ Touch(r, M)

IdxSet ==
    \E reg \in IncIdxRegs :
        LET r == idx_set(St, reg) IN Step(r, "set", reg) /\ Touch(r, reg)

FileWipe ==
    /\ Step(file_wipe(St), "wipe", -1)
    /\ wiped' = TRUE
    /\ other_ops' = by_idx
    /\ UNCHANGED lane_log

CycleClosed(r) ==
    /\ wiped' = (r.err /\ wiped)
    /\ lane_log' = IF r.err THEN lane_log ELSE NoLog
    /\ other_ops' = IF r.err THEN other_ops ELSE {}

FileCommit ==
    \E done \in Stops(St) :
        LET r == commit_run(St, done) IN
        /\ Effect(r, "commit", -1)
        /\ UNCHANGED steps
        /\ CycleClosed(r)

FileAbort ==
    \E done \in Stops(St) :
        LET r == abort_run(St, done) IN
        /\ Effect(r, "abort", -1)
        /\ UNCHANGED steps
        /\ CycleClosed(r)

WriteCounter ==
    \E w \in CounterWriteMenu :
        LET r == write_unsigned(St, w[1], w[2]) IN
        Step(r, "write_unsigned", w[1]) /\ Touch(r, w[1])

(* A direct call of the file's mark_written(idx). *)
MarkWritten ==
    \E idx \in MarkMenu :
        /\ Step(mark_written(St, idx), "mark_written", idx)
        /\ UNCHANGED <<wiped, lane_log, other_ops>>

WriteWordOutOfRange ==
    \E w \in OutOfRangeWordWrites :
        LET r == set_word(St, w[1], w[2], w[3]) IN
        /\ Step(r, "write_word_unsigned", w[1])
        /\ lane_log' = IF r.err THEN lane_log
                       ELSE [lane_log EXCEPT ![w[1]][w[2]] = Append(@, w[3])]
        /\ UNCHANGED <<wiped, other_ops>>

ReadWordUnsigned ==
    \E reg \in WideRegs, i \in ReadIdxMenu :
        /\ Effect([St EXCEPT !.err = read_word_unsigned_call(St, reg, i).err],
                  "read_word_unsigned", reg)
        /\ UNCHANGED <<steps, wiped, lane_log, other_ops>>

(* changes() and peek_unsigned_values() assign nothing. *)
Observe(r, op) ==
    /\ Effect([St EXCEPT !.err = r.err], op, -1)
    /\ UNCHANGED <<steps, wiped, lane_log, other_ops>>

Changes == Observe(changes(St), "changes")

PeekUnsignedValues == Observe(peek_unsigned_values(St), "peek_unsigned_values")

Next ==
    \/ WriteUnsigned
    \/ WriteWordUnsigned
    \/ Inc
    \/ TwiddleSetAsPsi
    \/ TwiddleInv
    \/ TwiddleUpdate
    \/ OmegaUpdate
    \/ PsiUpdate
    \/ MUpdate
    \/ IdxSet
    \/ FileWipe
    \/ FileCommit
    \/ FileAbort

Spec == Init /\ [][Next]_vars

-----------------------------------------------------------------------------
(* twiddle.update() on its own: the file holds a modulus q, its Montgomery *)
(* constant, and a twiddle and an omega word below q (states that          *)
(* write_unsigned and commit lead to from the constructor's).              *)

MontModuli ==
    { q \in 1 .. MontSmall : q % 2 = 1 } \cup { WordBase \div 2 - 1, WordBase - 1 }

MontOperands(q) ==
    IF q <= MontSmall THEN 0 .. (q - 1) ELSE {0, 1, 2, q \div 2, q - 2, q - 1}

MontWords == {0, 5}

InitMont ==
    \E q \in MontModuli, i \in MontWords :
        \E tw, om \in MontOperands(q) :
            InitFrom([Constructed EXCEPT
                         ![Q] = Some(q), ![Q_DASH] = Some(QDashOf(q)),
                         ![TWIDDLE] = Some(tw),
                         ![OMEGA] = [k \in 1 .. NumWords |-> IF k = i + 1 THEN om ELSE 1],
                         ![IDX_OMEGA] = Some(i)])

NextMont ==
    \/ TwiddleUpdate
    \/ FileCommit

SpecMont == InitMont /\ [][NextMont]_vars

-----------------------------------------------------------------------------
(* set() of idx_0 and idx_1 on its own: the file holds a loop counter j    *)
(* and a stride m (states that write_unsigned and commit lead to from the  *)
(* constructor's).  J_Test is the j of test_idx0 and test_idx1; it has     *)
(* bits set above the low byte that set() reads.                           *)

J_Test == 819

IdxJ == {0, 1, 51, WordBase \div 2, WordMask, J_Test}

IdxM == {0, 1, 17, WordMask}

InitIdx ==
    \E j \in IdxJ, m \in IdxM :
        InitFrom([Constructed EXCEPT ![J] = Some(j), ![M] = Some(m)])

NextIdx ==
    \/ IdxSet
    \/ FileCommit

SpecIdx == InitIdx /\ [][NextIdx]_vars

-----------------------------------------------------------------------------
(* m.update() on its own: the file holds a stride m and a mode (states     *)
(* that write_unsigned and commit lead to from the constructor's).         *)

StrideM == {0, 1, 7, 15, 17, WordBase \div 2 - 1, WordBase \div 2, WordMask, J_Test}

StrideMode == {0, 1, 2}

InitM ==
    \E m \in StrideM, mode \in StrideMode :
        InitFrom([Constructed EXCEPT ![M] = Some(m), ![MODE] = Some(mode)])

NextM ==
    \/ MUpdate
    \/ FileCommit

SpecM == InitM /\ [][NextM]_vars

-----------------------------------------------------------------------------
(* The file's observers, changes() and peek_unsigned_values(), called at   *)
(* any point of a cycle of writes, word writes and wipe().                 *)

NextObserve ==
    \/ WriteUnsigned
    \/ WriteWordUnsigned
    \/ FileWipe
    \/ FileCommit
    \/ Changes
    \/ PeekUnsignedValues

SpecObserve == Init /\ [][NextObserve]_vars

-----------------------------------------------------------------------------
(* Word reads and word writes of the wide registers, with indices and      *)
(* values inside and outside their ranges, and twiddle.update(), which     *)
(* reads the word of omega that idx_omega selects.                         *)

NextLane ==
    \/ WriteWordUnsigned
    \/ WriteWordOutOfRange
    \/ ReadWordUnsigned
    \/ TwiddleUpdate
    \/ FileCommit

SpecLane == Init /\ [][NextLane]_vars

-----------------------------------------------------------------------------
(* Direct calls of mark_written(idx) with idx outside the file, among      *)
(* writes and increments, and the commit() or abort() that closes the      *)
(* cycle.                                                                  *)

NextMark ==
    \/ WriteUnsigned
    \/ Inc
    \/ MarkWritten
    \/ FileCommit
    \/ FileAbort

SpecMark == Init /\ [][NextMark]_vars

-----------------------------------------------------------------------------
(* inc() among plain writes to the same counters.                          *)

NextInc ==
    \/ WriteCounter
    \/ Inc
    \/ FileCommit

SpecInc == Init /\ [][NextInc]_vars

-----------------------------------------------------------------------------
(* Properties *)

WordWritten(r) == \E i \in Words : lane_log[r][i] # <<>>

(* C1: when a cycle made only word writes to a wide register, the commit   *)
(* leaves in each word the last value written to it in the cycle, and in   *)
(* every word that was not written its value from before the cycle.        *)
C1_WordWritesMerge ==
    [][last'.op = "commit" =>
        \A r \in WideRegs :
            (r \notin other_ops /\ WordWritten(r)) =>
                \A i \in Words :
                    uval'[r][i + 1] =
                        IF lane_log[r][i] # <<>>
                        THEN lane_log[r][i][Len(lane_log[r][i])]
                        ELSE uval[r][i + 1]]_vars

(* A committed cycle wrote word 0 of a wide register twice with different  *)
(* values and left a non-zero word alone.                                  *)
C1_Witness ==
    /\ last.op = "commit"
    /\ \E r \in WideRegs :
        /\ r \notin last.regs
        /\ Len(last.log[r][0]) = 2
        /\ last.log[r][0][1] # last.log[r][0][2]
        /\ uval[r][1] = last.log[r][0][2]
        /\ last.log[r][1] = <<>>
        /\ uval[r][2] # 0

(* C2 as stated: an index is in the pending set exactly when its register  *)
(* holds a pending value.                                                  *)
C2_PendingIffHolds ==
    \A i \in by_idx : (i \in pending_writes) <=> (next_uval[i] # None)

(* C2 as amended: a register that holds a pending value has its index in   *)
(* the pending set, and an index in the pending set belongs to a register  *)
(* that holds a pending value or was invalidated by wipe() in this cycle.  *)
C2_PendingTracksWrites ==
    \A i \in by_idx :
        /\ next_uval[i] # None => i \in pending_writes
        /\ i \in pending_writes => (next_uval[i] # None \/ wiped)

(* After wipe() and a later write, some indices are pending with a value   *)
(* and others pending without one.                                         *)
C2_Witness ==
    /\ wiped
    /\ pending_writes = by_idx
    /\ \E i \in by_idx : next_uval[i] # None
    /\ \E i \in by_idx : next_uval[i] = None

(* C3: only the file's commit() changes the current value of a register.   *)
C3_OnlyCommitChangesCurrent ==
    [][last'.op # "commit" => uval' = uval]_vars

(* A register holds a pending value that differs from its current value.   *)
C3_Witness ==
    /\ last.op \in {"twiddle.inv", "write_word_unsigned", "inc", "set"}
    /\ ~last.err
    /\ next_uval[last.reg] # None
    /\ next_uval[last.reg] # uval[last.reg]

(* C4: commit() and abort() leave the pending set empty and no register    *)
(* with a pending value, and change nothing when the pending set is empty. *)
C4_CommitAbortClear ==
    [][last'.op \in {"commit", "abort"} =>
        /\ pending_writes' = {}
        /\ \A i \in by_idx : next_uval'[i] = None
        /\ pending_writes = {} => (uval' = uval /\ next_uval' = next_uval)]_vars

(* A commit that resolved pending word writes. *)
C4_Witness ==
    /\ last.op = "commit"
    /\ \E r \in WideRegs : \E i \in Words : last.log[r][i] # <<>>
    /\ pending_writes = {}

DerivedOps ==
    { <<"twiddle.set_as_psi", TWIDDLE>>, <<"twiddle.inv", TWIDDLE>>,
      <<"twiddle.update", TWIDDLE>>, <<"omega.update", OMEGA>>, <<"psi.update", PSI>>,
      <<"m.update", M>>, <<"set", IDX_0>>, <<"set", IDX_1>> }

DoDerived(d, s) ==
    CASE d[1] = "twiddle.set_as_psi" -> twiddle_set_as_psi(s)
      [] d[1] = "twiddle.inv" -> twiddle_inv(s)
      [] d[1] = "twiddle.update" -> twiddle_update(s)
      [] d[1] = "omega.update" -> omega_update(s)
      [] d[1] = "psi.update" -> psi_update(s)
      [] d[1] = "m.update" -> m_update(s)
      [] d[1] = "set" -> idx_set(s, d[2])

NoSiblingPending(s, r) ==
    [s EXCEPT !.n = [i \in by_idx |-> IF i = r THEN s.n[i] ELSE None]]

DerivedNames == { d[1] : d \in DerivedOps }

(* C5: the pending value a derived operation produces, and whether it      *)
(* fails, is what the operation produces when no other register has a      *)
(* pending write queued.                                                   *)
C5_Simultaneity ==
    [][last'.op \in DerivedNames =>
        LET b == DoDerived(<<last'.op, last'.reg>>, NoSiblingPending(St, last'.reg))
        IN  last'.err = b.err /\ next_uval'[last'.reg] = b.n[last'.reg]]_vars

(* twiddle.inv() ran after a write to q was queued in the same cycle. *)
C5_Witness ==
    /\ last.op = "twiddle.inv"
    /\ ~last.err
    /\ next_uval[Q] # None
    /\ next_uval[Q] # uval[Q]
    /\ next_uval[TWIDDLE] = Some(uval[Q][1] - uval[TWIDDLE][1])

RegOps ==
    { [name |-> "write_unsigned", reg |-> w[1], i |-> 0, v |-> w[2]] : w \in WriteMenu }
        \cup { [name |-> "write_word_unsigned", reg |-> w[1], i |-> w[2], v |-> Some(w[3])] :
                 w \in WordWriteMenu }
        \cup { [name |-> "inc", reg |-> r, i |-> 0, v |-> None] : r \in IncMenu }
        \cup { [name |-> d[1], reg |-> d[2], i |-> 0, v |-> None] : d \in DerivedOps }

Do(o, s0) ==
    LET s == [s0 EXCEPT !.err = FALSE] IN
    CASE o.name = "write_unsigned" -> write_unsigned(s, o.reg, o.v)
      [] o.name = "write_word_unsigned" -> set_word(s, o.reg, o.i, o.v[1])
      [] o.name = "inc" -> inc(s, o.reg)
      [] OTHER -> DoDerived(<<o.name, o.reg>>, s)

AfterCommit(s) == LET c == file_commit(s) IN <<c.u, c.n, c.p>>

SameRegister(a, b) ==
    /\ a.reg = b.reg
    /\ ~(a.name = "write_word_unsigned" /\ b.name = "write_word_unsigned" /\ a.i # b.i)

(* C6 as stated: any two register operations of a cycle, those on the same *)
(* register included, give the same file after commit in either order.     *)
C6_AnyOrder ==
    steps + 2 <= MaxOps =>
        \A a, b \in RegOps :
            AfterCommit(Do(b, Do(a, St))) = AfterCommit(Do(a, Do(b, St)))

(* C6 as amended: two register operations on different registers, or two   *)
(* word writes to different words of one register, give the same file      *)
(* after commit in either order.                                           *)
C6_OrderOfDistinctRegisters ==
    steps + 2 <= MaxOps =>
        \A a, b \in RegOps :
            ~SameRegister(a, b) =>
                AfterCommit(Do(b, Do(a, St))) = AfterCommit(Do(a, Do(b, St)))

(* A committed cycle held a write to q and twiddle.inv(): twiddle became    *)
(* the old q minus the old twiddle, q the written value.                   *)
C6_Witness ==
    /\ last.op = "commit"
    /\ {Q, TWIDDLE} \subseteq last.regs
    /\ uval[Q] = Some(7)
    /\ uval[TWIDDLE] = Some(8)

(* C7: inc() at 2^WordBits - 1 fails and queues nothing, an abort after it *)
(* leaves the value; below that value inc() succeeds and the commit after  *)
(* it yields the value plus one, not wrapped.                              *)
C7_SaturatingInc ==
    [][/\ (last'.op = "inc" /\ uval[last'.reg] = Some(WordMask)) =>
            /\ last'.err
            /\ uval' = uval /\ next_uval' = next_uval /\ pending_writes' = pending_writes
       /\ (last.op = "inc" /\ last.err /\ uval[last.reg] = Some(WordMask)
            /\ last'.op = "abort") => uval'[last.reg] = Some(WordMask)
       /\ (last'.op = "inc" /\ uval[last'.reg] # None /\ 0 <= uval[last'.reg][1]
            /\ uval[last'.reg][1] < WordMask) => ~last'.err
       /\ (last.op = "inc" /\ ~last.err /\ last'.op = "commit") =>
            /\ uval'[last.reg] = Some(uval[last.reg][1] + 1)
            /\ uval'[last.reg][1] <= WordMask]_vars

(* inc() has just failed on a counter that holds 2^WordBits - 1. *)
C7_Witness ==
    /\ last.op = "inc"
    /\ last.err
    /\ uval[last.reg] = Some(WordMask)
    /\ next_uval[last.reg] = None
    /\ last.reg \notin pending_writes

MontPre(limit) ==
    /\ uval[Q] # None /\ uval[Q_DASH] # None /\ uval[TWIDDLE] # None
    /\ uval[OMEGA] # None /\ WordIdxOk(uval[IDX_OMEGA])
    /\ uval[Q][1] % 2 = 1 /\ 0 < uval[Q][1] /\ uval[Q][1] < limit
    /\ uval[Q_DASH][1] = QDashOf(uval[Q][1])
    /\ 0 <= uval[TWIDDLE][1] /\ uval[TWIDDLE][1] < uval[Q][1]
    /\ uval[OMEGA][uval[IDX_OMEGA][1] + 1] < uval[Q][1]

MontPost ==
    LET q == uval[Q][1]
        t == uval'[TWIDDLE][1]
    IN  /\ 0 <= t /\ t < q
        /\ (t * WordBase) % q = (uval[TWIDDLE][1] * uval[OMEGA][uval[IDX_OMEGA][1] + 1]) % q

(* C8 as stated: for every odd q below 2^WordBits with its Montgomery      *)
(* constant, and twiddle and the selected omega word below q, the value t  *)
(* that twiddle.update() and the commit leave in twiddle is below q and    *)
(* t * 2^WordBits is congruent to twiddle * omega modulo q.                *)
C8_MontgomeryAnyModulus ==
    [][(last.op = "twiddle.update" /\ ~last.err /\ last'.op = "commit"
            /\ MontPre(WordBase)) => MontPost]_vars

(* C8 as amended: the same for every odd q below 2^(WordBits - 1).         *)
C8_MontgomeryHalfRange ==
    [][(last.op = "twiddle.update" /\ ~last.err /\ last'.op = "commit"
            /\ MontPre(WordBase \div 2)) => MontPost]_vars

(* twiddle.update() was committed under the largest modulus below          *)
(* 2^(WordBits - 1), with the omega word taken from word 5.                *)
C8_Witness ==
    /\ last.op = "commit"
    /\ TWIDDLE \in last.regs
    /\ uval[Q] = Some(WordBase \div 2 - 1)
    /\ uval[IDX_OMEGA] = Some(5)
    /\ uval[OMEGA][6] = uval[Q][1] - 1
    /\ uval[TWIDDLE] # Some(0)

InvPre ==
    /\ uval[Q] # None
    /\ uval[TWIDDLE] # None
    /\ uval[Q][1] > uval[TWIDDLE][1]

InRange(i, x) ==
    \/ x = None
    \/ IF i \in WideRegs
       THEN Len(x) = NumWords /\ \A k \in 1 .. NumWords : 0 <= x[k] /\ x[k] < WordBase
       ELSE Len(x) = 1 /\ 0 <= x[1] /\ x[1] < WordBase

(* C10: every known current and pending value is an unsigned integer below *)
(* two to the register's width.                                            *)
C10_ValueRange ==
    \A i \in by_idx : InRange(i, uval[i]) /\ InRange(i, next_uval[i])

LaneSquare(lane, q, q_inv) ==
    mont_reduce((lane * lane) % (WordBase * WordBase), q, q_inv)

(* C11: omega.update() and the commit after it replace each of the eight   *)
(* words of omega with the Montgomery square of that word under q and      *)
(* q_dash.                                                                 *)
C11_LanewiseSquare ==
    [][(last.op = "omega.update" /\ ~last.err /\ last'.op = "commit") =>
        \A i \in Words :
            uval'[OMEGA][i + 1] = LaneSquare(uval[OMEGA][i + 1], uval[Q][1], uval[Q_DASH][1])]_vars

PsiPre ==
    /\ WordIdxOk(uval[IDX_PSI])
    /\ uval[OMEGA] # None
    /\ uval[PSI] # None

Broadcast(word) == [k \in 1 .. NumWords |-> word]

(* C12: with idx_psi holding k in 0..7 and omega and psi holding values,   *)
(* psi.update() succeeds, leaves psi's current value as it is and queues   *)
(* word k of omega's current value in all eight words of psi, whatever     *)
(* word writes to psi were queued before it in the cycle; the commit after *)
(* it makes all eight words of psi equal to that word.                     *)
C12_PsiBroadcast ==
    [][/\ (last'.op = "psi.update" /\ PsiPre) =>
            /\ ~last'.err
            /\ uval'[PSI] = uval[PSI]
            /\ next_uval'[PSI] = Broadcast(uval[OMEGA][uval[IDX_PSI][1] + 1])
            /\ PSI \in pending_writes'
       /\ (last.op = "psi.update" /\ ~last.err /\ last'.op = "commit") =>
            uval'[PSI] = Broadcast(uval[OMEGA][uval[IDX_PSI][1] + 1])]_vars

(* A committed cycle queued a word write to psi and then psi.update() with *)
(* idx_psi = 7: psi holds word 7 of omega in every word, and the written   *)
(* word is gone.                                                           *)
C12_Witness ==
    /\ last.op = "commit"
    /\ PSI \in last.regs
    /\ last.log[PSI][1] = <<WordMask>>
    /\ uval[IDX_PSI] = Some(7)
    /\ uval[OMEGA][8] # uval[OMEGA][1]
    /\ uval[OMEGA][8] # WordMask
    /\ uval[PSI] = Broadcast(uval[OMEGA][8])

Bit(v, k) == (v \div Pow2(k)) % 2

(* The low byte of v with bit 7 in place of bit 0, bit 6 in place of bit 1 *)
(* and so on.                                                              *)
rev8(v) ==
    128 * Bit(v, 0) + 64 * Bit(v, 1) + 32 * Bit(v, 2) + 16 * Bit(v, 3)
        + 8 * Bit(v, 4) + 4 * Bit(v, 5) + 2 * Bit(v, 6) + Bit(v, 7)

AddressOf(r) ==
    IF r = IDX_0 THEN rev8(uval[J][1] % 256)
    ELSE (rev8(uval[J][1] % 256) + uval[M][1]) % 256

(* C13: with j and m holding values, set() succeeds on idx_0 and idx_1 and *)
(* the commit after it leaves rev8(j & 0xFF) in idx_0, with no stride      *)
(* added, and (rev8(j & 0xFF) + m) & 0xFF in idx_1; both are in 0..255.    *)
C13_BitReversedAddress ==
    [][/\ (last'.op = "set" /\ uval[J] # None /\ uval[M] # None) =>
            /\ ~last'.err
            /\ next_uval'[last'.reg] = Some(AddressOf(last'.reg))
       /\ last'.op = "commit" =>
            \A r \in other_ops \cap IncIdxRegs :
                /\ uval'[r] = Some(AddressOf(r))
                /\ 0 <= uval'[r][1] /\ uval'[r][1] <= 255]_vars

(* A committed cycle ran set() on both registers with the test's j and a   *)
(* stride whose sum with the reversed byte exceeds 255.                    *)
C13_Witness ==
    /\ last.op = "commit"
    /\ last.regs = IncIdxRegs
    /\ uval[J] = Some(J_Test)
    /\ uval[M] = Some(WordMask)
    /\ uval[IDX_0] = Some(204)
    /\ uval[IDX_1] = Some((204 + WordMask) % 256)

ModeSet == uval[MODE][1] # 0

StrideOf(v) == IF ModeSet THEN (v % 128) * 2 ELSE (v % 256) \div 2

(* C14: with m holding v and mode holding a value, m.update() succeeds and *)
(* queues (v & 0x7F) << 1 when the mode flag is set (mode is not 0) and    *)
(* (v & 0xFF) >> 1 when it is clear, both read from the current values;    *)
(* the commit after it leaves that value in m.  The value is below 256; it *)
(* is 2 * v when the flag is set and v is below 128, and v halved, rounded *)
(* down, when the flag is clear and v is below 256.                        *)
C14_StrideUpdate ==
    [][/\ (last'.op = "m.update" /\ uval[M] # None /\ uval[MODE] # None) =>
            /\ ~last'.err
            /\ uval'[M] = uval[M]
            /\ next_uval'[M] = Some(StrideOf(uval[M][1]))
       /\ (last.op = "m.update" /\ ~last.err /\ last'.op = "commit") =>
            LET v == uval[M][1]
                t == uval'[M][1]
            IN  /\ uval'[M] = Some(StrideOf(v))
                /\ 0 <= t /\ t < 256
                /\ (ModeSet /\ v < 128) => t = 2 * v
                /\ (~ModeSet /\ v < 256) => t = v \div 2]_vars

(* Two update/commit cycles with the flag set took m from 2^WordBits - 1   *)
(* through 254 to 252.                                                     *)
C14_Witness ==
    /\ last.op = "commit"
    /\ last.regs = {M}
    /\ steps = 2
    /\ uval[MODE] = Some(1)
    /\ uval[M] = Some(2 * ((2 * (WordMask % 128)) % 128))
    /\ uval[M][1] # 4 * WordMask

RegWidth(idx) == IF idx \in WideRegs THEN 256 ELSE 32

(* C15: changes() succeeds in every state and returns one trace entry per  *)
(* index of the pending set, in ascending index order, each with the       *)
(* register's index in its name, the register's own width, 32 or 256, and  *)
(* the register's pending value; it leaves the registers and the pending   *)
(* set unchanged.                                                          *)
C15_ChangesTraces ==
    [][last'.op = "changes" =>
        LET c == changes(St) IN
        /\ ~last'.err
        /\ ~c.err
        /\ Len(c.ret) = Cardinality(pending_writes)
        /\ \A n \in 1 .. Len(c.ret) :
            /\ c.ret[n].name[2] \in pending_writes
            /\ n > 1 => c.ret[n - 1].name[2] < c.ret[n].name[2]
            /\ c.ret[n].width = <<RegWidth(c.ret[n].name[2])>>
            /\ c.ret[n].new_value = next_uval[c.ret[n].name[2]]
        /\ UNCHANGED <<uval, next_uval, pending_writes>>]_vars

(* C16: peek_unsigned_values() succeeds in every state and returns the 17  *)
(* current values of the registers in index order; it leaves every current *)
(* value, every pending value and the pending set unchanged.               *)
C16_PeekValues ==
    [][last'.op = "peek_unsigned_values" =>
        LET c == peek_unsigned_values(St) IN
        /\ ~last'.err
        /\ ~c.err
        /\ Len(c.ret) = 17
        /\ \A n \in 1 .. Len(c.ret) : c.ret[n] = uval[n - 1]
        /\ UNCHANGED <<uval, next_uval, pending_writes>>]_vars

CycleEnd == {"wipe", "commit", "abort"}

BadWordIdx == {-1, NumWords}

BadWordValue == {-1, WordBase}

SameFile(s) == s.u = uval /\ s.n = next_uval /\ s.p = pending_writes

(* C18: on every wide register, read_word_unsigned(i) with i outside 0..7  *)
(* fails, and a word write with i outside 0..7 or a value outside          *)
(* [0, 2^WordBits) fails and leaves the current values, the pending values *)
(* (word writes merged earlier in the cycle included) and the pending set  *)
(* as they were; a step that is a failed word read or word write changes   *)
(* none of them.                                                           *)
C18_LaneRangeErrors ==
    [][/\ \A r \in WideRegs :
            /\ \A i \in BadWordIdx : read_word_unsigned_call(St, r, i).err
            /\ \A i \in BadWordIdx, v \in {0, WordMask} \cup BadWordValue :
                    LET w == set_word(St, r, i, v) IN w.err /\ SameFile(w)
            /\ \A i \in Words, v \in BadWordValue :
                    LET w == set_word(St, r, i, v) IN w.err /\ SameFile(w)
       /\ (last'.op \in {"read_word_unsigned", "write_word_unsigned"} /\ last'.err) =>
            UNCHANGED <<uval, next_uval, pending_writes>>]_vars

(* A word write has just failed on a register that holds a value and the   *)
(* merge of an earlier word write of the cycle: the merge is still queued. *)
C18_Witness ==
    /\ last.op = "write_word_unsigned"
    /\ last.err
    /\ uval[last.reg] # None
    /\ lane_log[last.reg][0] = <<WordMask>>
    /\ next_uval[last.reg] # None
    /\ next_uval[last.reg][1] = WordMask
    /\ next_uval[last.reg] # uval[last.reg]
    /\ pending_writes = {last.reg}

(* The file after wipe(), commit() and a committed cycle that wrote omega, *)
(* q, q_dash and twiddle: these four hold values, idx_omega is unknown.    *)
OnlyNttOperandsKnown ==
    /\ \A i \in {OMEGA, Q, Q_DASH, TWIDDLE} : uval[i] # None
    /\ \A i \in by_idx \ {OMEGA, Q, Q_DASH, TWIDDLE} : uval[i] = None

(* C19: in the file after wipe(), commit() and a committed cycle that      *)
(* wrote only omega, q, q_dash and twiddle, idx_omega is unknown and       *)
(* twiddle.update() completes without an error; and read_word_unsigned(i)  *)
(* with i in 0..7 on a wide register whose value is unknown completes      *)
(* without an error.                                                       *)
C19_PoisonedReadsSucceed ==
    [][/\ OnlyNttOperandsKnown =>
            /\ uval[IDX_OMEGA] = None
            /\ ~twiddle_update(St).err
            /\ last'.op = "twiddle.update" => ~last'.err
       /\ \A r \in WideRegs, i \in Words :
            uval[r] = None => ~read_word_unsigned_call(St, r, i).err]_vars

(* The indices test_idx0 and test_idx1 expect in the pending set after     *)
(* idx_0.inc() and idx_1.inc().                                            *)
Test_IDX_0 == 13
Test_IDX_1 == 14

Marks(r, idx) == ~r.err => r.p = pending_writes \cup {idx}

(* C20: an operation on a register adds exactly one index to the pending   *)
(* set, the one the tests assert: 7 for a write to const, 5 for            *)
(* idx_omega.inc(), 2 for the twiddle operations, 3 for omega.update(), 4  *)
(* for psi.update(), 13 for idx_0.inc() and 14 for idx_1.inc().            *)
C20_TestIndexAssignment ==
    [][/\ Marks(write_unsigned(St, CONST, Some(1)), 7)
       /\ Marks(inc(St, IDX_OMEGA), 5)
       /\ Marks(twiddle_set_as_psi(St), 2)
       /\ Marks(twiddle_inv(St), 2)
       /\ Marks(twiddle_update(St), 2)
       /\ Marks(omega_update(St), 3)
       /\ Marks(psi_update(St), 4)
       /\ Marks(inc(St, IDX_0), Test_IDX_0)
       /\ Marks(inc(St, IDX_1), Test_IDX_1)
       /\ (last'.op = "inc" /\ last'.reg = IDX_0 /\ ~last'.err) =>
            pending_writes' = pending_writes \cup {Test_IDX_0}]_vars

(* C21: mark_written(idx) with idx outside 0..16 fails and leaves the      *)
(* pending set as it was; and every commit() and abort() completes,        *)
(* leaving the pending set empty and no register with a pending value.     *)
C21_NoPartialResolution ==
    [][/\ (last'.op = "mark_written" /\ last'.reg \notin by_idx) =>
            /\ last'.err
            /\ pending_writes' = pending_writes
       /\ last'.op \in {"commit", "abort"} =>
            /\ ~last'.err
            /\ pending_writes' = {}
            /\ \A i \in by_idx : next_uval'[i] = None]_vars

Plus1(r) == Some(uval[r][1] + 1)

(* C22: a successful inc() queues the counter's current value plus one,    *)
(* whatever an earlier inc() or plain write of the cycle queued for the    *)
(* counter; a second and a third inc() of the cycle queue the same value,  *)
(* and the commit after them leaves the counter one above its value from   *)
(* before the cycle.                                                       *)
C22_IncFromCurrent ==
    [][/\ (last'.op = "inc" /\ ~last'.err) => next_uval'[last'.reg] = Plus1(last'.reg)
       /\ (last.op = "inc" /\ ~last.err /\ last'.op = "commit") =>
            uval'[last.reg] = Plus1(last.reg)
       /\ \A r \in IncMenu :
            LET a == inc(St, r)
                b == inc(a, r)
                c == inc(b, r)
            IN  ~a.err =>
                    /\ ~b.err /\ ~c.err
                    /\ b.n[r] = Plus1(r) /\ c.n[r] = Plus1(r)
                    /\ file_commit(c).u[r] = Plus1(r)
                    /\ \A w \in CounterWriteMenu :
                            w[1] = r =>
                                LET d == inc(write_unsigned(St, r, w[2]), r) IN
                                /\ ~d.err
                                /\ d.n[r] = Plus1(r)
                                /\ file_commit(d).u[r] = Plus1(r)]_vars

(* From j = 51 and nothing committed since, the second operation of the    *)
(* cycle on j, after a write of 9 or an inc(), is an inc(): 52 is queued.  *)
C22_Witness ==
    /\ uval = SeedNtt
    /\ steps = 2
    /\ last.op = "inc"
    /\ ~last.err
    /\ last.reg = J
    /\ pending_writes = {J}
    /\ other_ops = {J}
    /\ next_uval[J] = Some(52)

====
